---- MODULE Spec2Model ----
(***************************************************************************)
(* Model of the mapbox client library: the LatLonPair JSON codec, the      *)
(* query parameter encoder toURLValues, and the public operations          *)
(* LookupPlace, LookupLatLon, ReverseGeocoding and RequestDuration.        *)
(* Two further specifications run goroutines that share one client over   *)
(* its RWMutex, and a LatLonPair through its encoder and decoder.          *)
(*                                                                         *)
(* Strings are sequences of one-character strings.  Numbers are dyadic     *)
(* rationals [m |-> mantissa, e |-> k] standing for m / 2^k, so that the   *)
(* conversion float32(t) can round.                                        *)
(***************************************************************************)
EXTENDS Integers, Sequences, FiniteSets, TLC

VARIABLES
    cIn,        \* codec: the JSON value handed to LatLonPair.UnmarshalJSON
    cOut,       \* codec: [err, val] returned through *llp
    cPc,        \* codec: "input" before the call, "done" after it
    uIn,        \* encoder: the *GeocodeRequest handed to toURLValues
    uOut,       \* encoder: [err, values] returned by toURLValues
    uPc,        \* encoder: "input" before the call, "done" after it
    defaultEnvAPIKey,   \* the package variable read from MAPBOX_API_KEY
    apiKey,             \* Client.apiKey
    version,            \* Client.version
    httpClient,         \* Client.httpClient: "nil" or "tBackend"
    lastSet,            \* the argument of the latest SetAPIKey call, if any
    pc,                 \* where the current call stands
    op,                 \* the public operation called
    arg,                \* its request
    encoded,            \* the encoded request: url.Values or JSON body
    hreq,               \* the *http.Request built, or nil
    roundTrips,         \* requests handed to the HTTP client by this call
    res,                \* the *http.Response received
    deferred,           \* whether res.Body.Close() has been deferred
    bodyClosed,         \* how often res.Body was closed
    bodyReads,          \* how often res.Body was read
    decodes,            \* how often the body was handed to json.Unmarshal
    slurp,              \* the body as read
    ret,                \* the (response, error) returned
    failed,             \* the step of the call that failed, if any
    mu,                 \* Client.RWMutex: [readers, w, held]
    callers,            \* concurrent callers: [op, step, at, key] of each goroutine
    published,          \* "constructing" inside NewClient, "returned" after it
    rtIn,               \* round trip: the LatLonPair or JSON value it starts from
    rtMid,              \* round trip: what the first conversion returned
    rtOut,              \* round trip: what the second conversion returned
    rtPc                \* round trip: which conversions have run

codecVars == <<cIn, cOut, cPc>>
encoderVars == <<uIn, uOut, uPc>>
clientVars == <<defaultEnvAPIKey, apiKey, version, httpClient, lastSet>>
lockVars == <<mu, callers, published>>
pairVars == <<rtIn, rtMid, rtOut, rtPc>>
callVars == <<pc, op, arg, encoded, hreq, roundTrips, res, deferred, bodyClosed,
              bodyReads, decodes, slurp, ret, failed>>

vars == <<cIn, cOut, cPc, uIn, uOut, uPc, defaultEnvAPIKey, apiKey, version,
          httpClient, lastSet, pc, op, arg, encoded, hreq, roundTrips, res, deferred,
          bodyClosed, bodyReads, decodes, slurp, ret, failed, mu, callers,
          published, rtIn, rtMid, rtOut, rtPc>>

(***************************************************************************)
(* Numbers                                                                 *)
(***************************************************************************)
Abs(n) == IF n < 0 THEN -n ELSE n

RECURSIVE BitLen(_)
BitLen(n) == IF n = 0 THEN 0 ELSE 1 + BitLen(n \div 2)

RECURSIVE Normalize(_, _)
Normalize(m, e) ==
    IF m = 0 THEN [m |-> 0, e |-> 0]
    ELSE IF e > 0 /\ m % 2 = 0 THEN Normalize(m \div 2, e - 1)
    ELSE [m |-> m, e |-> e]

Num(m, e) == Normalize(m, e)
Whole(n) == Num(n, 0)

\* Significand widths of the IEEE-754 formats behind float32 and float64.
Float32Bits == 24
Float64Bits == 53

\* Round the magnitude a to `bits` significant bits, ties to even.
RoundSig(a, bits) ==
    LET n == BitLen(a) IN
    IF n <= bits THEN a
    ELSE LET d    == n - bits
             p    == 2 ^ d
             q    == a \div p
             r    == a % p
             half == p \div 2
             q2   == IF r > half \/ (r = half /\ q % 2 = 1) THEN q + 1 ELSE q
         IN  q2 * p

RoundFloat(x, bits) ==
    LET a == RoundSig(Abs(x.m), bits) IN
    Normalize(IF x.m < 0 THEN -a ELSE a, x.e)

Float32(x) == RoundFloat(x, Float32Bits)
Float64(x) == RoundFloat(x, Float64Bits)

NoPathDuration == Whole(-1)

(***************************************************************************)
(* JSON values and what encoding/json decodes them to in an interface{}    *)
(***************************************************************************)
\* A JSON value: its kind t, a number's value m / 2^e, a string's or
\* boolean's text s, an array's elements.
J(t, m, e, s, elems) == [t |-> t, m |-> m, e |-> e, s |-> s, elems |-> elems]

JNull         == J("null", 0, 0, <<>>, <<>>)
JNum(x)       == J("number", x.m, x.e, <<>>, <<>>)
JStr(s)       == J("string", 0, 0, s, <<>>)
JBool(b)      == J("bool", 0, 0, IF b THEN <<"true">> ELSE <<"false">>, <<>>)
JObj          == J("object", 0, 0, <<>>, <<>>)
JArray(elems) == J("array", 0, 0, <<>>, elems)

ValueOf(j) == [m |-> j.m, e |-> j.e]

\* A Go value held in an interface{}: its dynamic type and its contents.
G(typ, m, e, s, elems) == [typ |-> typ, m |-> m, e |-> e, s |-> s, elems |-> elems]

\* The dynamic Go type and value of a JSON value decoded into interface{}:
\* every number a float64, every array a []interface{}.
RECURSIVE InterfaceOf(_)
InterfaceOf(j) ==
    CASE j.t = "null"   -> G("nil", 0, 0, <<>>, <<>>)
      [] j.t = "number" -> LET f == Float64(ValueOf(j))
                           IN  G("float64", f.m, f.e, <<>>, <<>>)
      [] j.t = "string" -> G("string", 0, 0, j.s, <<>>)
      [] j.t = "bool"   -> G("bool", 0, 0, j.s, <<>>)
      [] j.t = "object" -> G("map[string]interface {}", 0, 0, <<>>, <<>>)
      [] OTHER          -> G("[]interface {}", 0, 0, <<>>,
                             [i \in 1..Len(j.elems) |-> InterfaceOf(j.elems[i])])

GoNumericTypes ==
    {"float32", "float64", "int", "int32", "int64", "uint", "uint32", "uint64"}

(***************************************************************************)
(* LatLonPair.UnmarshalJSON                                                *)
(***************************************************************************)
\* A decoder that takes the zero value for null.
UnmarshalElemNullZero(v) ==
    IF v.typ = "nil" THEN Whole(0)
    ELSE IF v.typ \in GoNumericTypes THEN Float32(ValueOf(v))
    ELSE NoPathDuration

\* A decoder that takes a zero for "no value" too.
UnmarshalElemZeroSentinel(v) ==
    IF v.typ = "nil" \/ (v.typ \in GoNumericTypes /\ v.m = 0) THEN NoPathDuration
    ELSE IF v.typ \in GoNumericTypes THEN Float32(ValueOf(v))
    ELSE NoPathDuration

\* One turn of the loop over irecv.
UnmarshalElem(v) ==
    IF v.typ = "nil" THEN NoPathDuration
    ELSE IF v.typ = "float32" THEN ValueOf(v)
    ELSE IF v.typ \in GoNumericTypes THEN Float32(ValueOf(v))
    ELSE NoPathDuration

\* A decoder that skips null elements instead of appending the sentinel.
UnmarshalJSONSkipNull(b) ==
    IF b.t = "null" THEN [err |-> "", val |-> <<>>]
    ELSE IF b.t # "array"
    THEN [err |-> "json: cannot unmarshal into Go value of type []interface {}",
          val |-> <<>>]
    ELSE LET irecv == SelectSeq(InterfaceOf(b).elems, LAMBDA v : v.typ # "nil")
         IN  [err |-> "",
              val |-> [i \in 1..Len(irecv) |-> UnmarshalElem(irecv[i])]]

\* json.Unmarshal(b, &irecv) fails unless b is an array (or null), and then
\* every element is appended in order.
UnmarshalJSON(b) ==
    IF b.t = "null" THEN [err |-> "", val |-> <<>>]
    ELSE IF b.t # "array"
    THEN [err |-> "json: cannot unmarshal into Go value of type []interface {}",
          val |-> <<>>]
    ELSE LET irecv == InterfaceOf(b).elems
         IN  [err |-> "",
              val |-> [i \in 1..Len(irecv) |-> UnmarshalElem(irecv[i])]]

(***************************************************************************)
(* Strings: sequences of pieces.  A piece is one character, or a run of    *)
(* letters, digits, '.', '-' and '_' that URL syntax gives no meaning to.  *)
(***************************************************************************)
Ctl == "\n"

HexDigits ==
    {"0", "1", "2", "3", "4", "5", "6", "7", "8", "9",
     "a", "b", "c", "d", "e", "f", "A", "B", "C", "D", "E", "F"}

DigitChars == <<"0", "1", "2", "3", "4", "5", "6", "7", "8", "9">>

SeqsUpTo(S, n) == UNION {[1..k -> S] : k \in 0..n}

RECURSIVE Flatten(_)
Flatten(ss) == IF ss = <<>> THEN <<>> ELSE Head(ss) \o Flatten(Tail(ss))

RECURSIVE Join(_, _)
Join(ss, sep) ==
    IF ss = <<>> THEN <<>>
    ELSE IF Len(ss) = 1 THEN Head(ss)
    ELSE Head(ss) \o sep \o Join(Tail(ss), sep)

\* The index of the first piece of s equal to c, or 0.
RECURSIVE IndexFrom(_, _, _)
IndexFrom(s, c, i) ==
    IF i > Len(s) THEN 0 ELSE IF s[i] = c THEN i ELSE IndexFrom(s, c, i + 1)
Index(s, c) == IndexFrom(s, c, 1)

\* fmt.Sprintf("%d", n)
RECURSIVE Decimal(_)
Decimal(n) ==
    IF n < 10 THEN <<DigitChars[n + 1]>>
    ELSE Decimal(n \div 10) \o <<DigitChars[(n % 10) + 1]>>

RECURSIVE Padded(_, _)
Padded(n, width) ==
    IF width = 0 THEN <<>>
    ELSE Padded(n \div 10, width - 1) \o <<DigitChars[(n % 10) + 1]>>

\* A float32 that is no number; json.Marshal refuses it.
NaN == [m |-> 0, e |-> -1]
IsFinite(x) == x.e >= 0

\* fmt.Sprintf("%f", x): six decimals (exact for x.e <= 6).
FixedPoint(x) ==
    LET a  == Abs(x.m)
        p  == 2 ^ x.e
    IN  (IF x.m < 0 THEN <<"-">> ELSE <<>>)
            \o Decimal(a \div p) \o <<".">> \o Padded(((a % p) * 1000000) \div p, 6)

\* strconv's shortest decimal of a float32, as json.Marshal writes it; the
\* digits after the point are those of FixedPoint with trailing zeros cut.
\* fmt.Sprintf("%v", x) of the elements of a slice.
RECURSIVE TrimZeros(_)
TrimZeros(s) ==
    IF s # <<>> /\ s[Len(s)] = "0" THEN TrimZeros(SubSeq(s, 1, Len(s) - 1))
    ELSE IF s # <<>> /\ s[Len(s)] = "." THEN SubSeq(s, 1, Len(s) - 1)
    ELSE s
\* 11420669 / 2^107, about 7.0385307e-26: a float32 below 1e-6, which
\* strconv writes in exponent form.  Its shortest decimal is 7.038531e-26:
\* no decimal of six digits lies nearer to it than to its neighbours.
TieFloat == Num(11420669, 107)
TieDecimal == <<"7", ".", "0", "3", "8", "5", "3", "1", "e", "-", "2", "6">>

Shortest(x) == IF x = TieFloat THEN TieDecimal ELSE TrimZeros(FixedPoint(x))

\* fmt.Sprintf("%v", typ) of a *LatLonPair: &[1 2.5]
DefaultString(elems) ==
    <<"&", "[">> \o Join([i \in 1..Len(elems) |-> Shortest(elems[i])], <<" ">>) \o <<"]">>

(***************************************************************************)
(* json.Marshal of a *GeocodeRequest                                       *)
(***************************************************************************)
\* A pointer to a LatLonPair: nil, or a slice that is nil or holds elems.
NilPair        == [kind |-> "nilptr", elems |-> <<>>]
NilSlicePair   == [kind |-> "nilslice", elems |-> <<>>]
PairOf(elems)  == [kind |-> "slice", elems |-> elems]

NilRequest == [isNil |-> TRUE, Country |-> <<>>, Limit |-> 0, Types |-> <<>>,
               Proximity |-> NilPair, BoundingBox |-> <<>>, AutoComplete |-> FALSE]

GeocodeRequest(country, limit, types, proximity, bbox, autocomplete) ==
    [isNil |-> FALSE, Country |-> country, Limit |-> limit, Types |-> types,
     Proximity |-> proximity, BoundingBox |-> bbox, AutoComplete |-> autocomplete]

AllFinite(fs) == \A i \in 1..Len(fs) : IsFinite(fs[i])

JFloats(fs)  == JArray([i \in 1..Len(fs) |-> JNum(fs[i])])
JStrings(ss) == JArray([i \in 1..Len(ss) |-> JStr(ss[i])])

\* The keys json.Marshal writes: a field tagged omitempty is left out when
\* it is empty (nil pointer, zero length, 0, false).
MarshalledKeys(r) ==
    {k \in {"country", "limit", "types", "proximity", "bbox", "autocomplete"} :
        CASE k = "country"      -> Len(r.Country) > 0
          [] k = "limit"        -> r.Limit # 0
          [] k = "types"        -> Len(r.Types) > 0
          [] k = "proximity"    -> r.Proximity.kind # "nilptr"
          [] k = "bbox"         -> Len(r.BoundingBox) > 0
          [] OTHER              -> r.AutoComplete}

MarshalField(r, k) ==
    CASE k = "country"   -> JStrings(r.Country)
      [] k = "limit"     -> JNum(Whole(r.Limit))
      [] k = "types"     -> JStrings(r.Types)
      [] k = "proximity" -> IF r.Proximity.kind = "nilslice" THEN JNull
                            ELSE JFloats(r.Proximity.elems)
      [] k = "bbox"      -> JFloats(r.BoundingBox)
      [] OTHER           -> JBool(r.AutoComplete)

\* json.Marshal(v): [err, null, fields]; a nil pointer marshals as null,
\* a float that is no number is an error.
MarshalRequest(r) ==
    IF r.isNil THEN [err |-> "", null |-> TRUE, fields |-> <<>>]
    ELSE IF ~AllFinite(r.Proximity.elems) \/ ~AllFinite(r.BoundingBox)
    THEN [err |-> "json: unsupported value", null |-> FALSE, fields |-> <<>>]
    ELSE [err |-> "", null |-> FALSE,
          fields |-> [k \in MarshalledKeys(r) |-> MarshalField(r, k)]]

(***************************************************************************)
(* toURLValues                                                             *)
(***************************************************************************)
\* The values the type switch adds for one entry of recv.
SwitchOnType(ival) ==
    CASE ival.typ = "string"      -> <<ival.s>>
      [] ival.typ = "uint"        -> <<Decimal(ival.m)>>
      [] ival.typ = "bool"        -> <<ival.s>>
      [] ival.typ = "[]float32"   ->
            [i \in 1..Len(ival.elems) |-> FixedPoint(ValueOf(ival.elems[i]))]
      [] ival.typ = "[]string"    ->
            [i \in 1..Len(ival.elems) |-> ival.elems[i].s]
      [] ival.typ = "*LatLonPair" ->
            [i \in 1..Len(ival.elems) |-> FixedPoint(ValueOf(ival.elems[i]))]
                \o <<DefaultString([i \in 1..Len(ival.elems) |-> ValueOf(ival.elems[i])])>>
      [] OTHER                    -> <<>>

\* json.Unmarshal(blob, &recv) into a map[string]interface{}: null leaves
\* the map empty.
UnmarshalToMap(blob) ==
    IF blob.null THEN <<>>
    ELSE [k \in DOMAIN blob.fields |-> InterfaceOf(blob.fields[k])]

\* url.Values after the loop: a key is in the map once a value was added.
ValuesOf(recv) ==
    LET added == {k \in DOMAIN recv :
                    recv[k].typ # "nil" /\ SwitchOnType(recv[k]) # <<>>}
    IN  [k \in added |-> SwitchOnType(recv[k])]

toURLValues(v) ==
    LET blob == MarshalRequest(v) IN
    IF blob.err # "" THEN [err |-> blob.err, values |-> <<>>]
    ELSE [err |-> "", values |-> ValuesOf(UnmarshalToMap(blob))]

(***************************************************************************)
(* net/url as the operations use it                                        *)
(***************************************************************************)
\* The two hex digits url.QueryEscape writes for a character it escapes.
EscapeCodes ==
    [c \in {"%", "#", "&", "=", "+", "/", "?", ",", "[", "]", Ctl} |->
        CASE c = "%" -> <<"2", "5">>
          [] c = "#" -> <<"2", "3">>
          [] c = "&" -> <<"2", "6">>
          [] c = "=" -> <<"3", "D">>
          [] c = "+" -> <<"2", "B">>
          [] c = "/" -> <<"2", "F">>
          [] c = "?" -> <<"3", "F">>
          [] c = "," -> <<"2", "C">>
          [] c = "[" -> <<"5", "B">>
          [] c = "]" -> <<"5", "D">>
          [] OTHER   -> <<"0", "A">>]

\* url.QueryEscape: a space becomes '+', a reserved character %XX.
QueryEscape(s) ==
    Flatten([i \in 1..Len(s) |->
                IF s[i] = " " THEN <<"+">>
                ELSE IF s[i] \in DOMAIN EscapeCodes THEN <<"%">> \o EscapeCodes[s[i]]
                ELSE <<s[i]>>])

\* The character %hl stands for; a byte with no name here is "\\x".
ByteOf(h, l) ==
    IF \E c \in DOMAIN EscapeCodes : EscapeCodes[c] = <<h, l>>
    THEN CHOOSE c \in DOMAIN EscapeCodes : EscapeCodes[c] = <<h, l>>
    ELSE "\\x"

\* url's unescape: [ok, s]; fails on a '%' not followed by two hex digits;
\* in a query component '+' is a space.
RECURSIVE Unescape(_, _)
Unescape(s, plusIsSpace) ==
    IF s = <<>> THEN [ok |-> TRUE, s |-> <<>>]
    ELSE IF Head(s) = "%"
    THEN IF Len(s) >= 3 /\ s[2] \in HexDigits /\ s[3] \in HexDigits
         THEN LET rest == Unescape(SubSeq(s, 4, Len(s)), plusIsSpace)
              IN  [ok |-> rest.ok, s |-> <<ByteOf(s[2], s[3])>> \o rest.s]
         ELSE [ok |-> FALSE, s |-> <<>>]
    ELSE LET rest == Unescape(Tail(s), plusIsSpace)
             c    == IF plusIsSpace /\ Head(s) = "+" THEN " " ELSE Head(s)
         IN  [ok |-> rest.ok, s |-> <<c>> \o rest.s]

\* strings.Split(s, c)
RECURSIVE Split(_, _)
Split(s, c) ==
    LET i == Index(s, c) IN
    IF i = 0 THEN <<s>>
    ELSE <<SubSeq(s, 1, i - 1)>> \o Split(SubSeq(s, i + 1, Len(s)), c)

\* strings.Cut(s, c)
Before(s, c) == IF Index(s, c) = 0 THEN s ELSE SubSeq(s, 1, Index(s, c) - 1)
After(s, c)  == IF Index(s, c) = 0 THEN <<>> ELSE SubSeq(s, Index(s, c) + 1, Len(s))

baseURL == <<"https://api.mapbox.com">>

\* url.Parse of baseURL followed by path?query#fragment: it refuses a
\* control character anywhere and a bad %-escape in the path or fragment.
ParseURL(raw) ==
    LET rest  == Before(raw, "#")
        frag  == Unescape(After(raw, "#"), FALSE)
        path  == Unescape(Tail(Before(rest, "?")), FALSE)
    IN  IF \E i \in 1..Len(raw) : raw[i] = Ctl
        THEN [err |-> "net/url: invalid control character in URL",
              Path |-> <<>>, RawQuery |-> <<>>, Fragment |-> <<>>]
        ELSE IF ~path.ok \/ ~frag.ok
        THEN [err |-> "invalid URL escape",
              Path |-> <<>>, RawQuery |-> <<>>, Fragment |-> <<>>]
        ELSE [err |-> "", Path |-> path.s, RawQuery |-> After(rest, "?"),
              Fragment |-> frag.s]

\* The values of url.ParseQuery(rawQuery)[key]: a pair whose key or value
\* does not unescape is skipped.
QueryValues(rawQuery, key) ==
    LET pairs == Split(rawQuery, "&")
        k(i)  == Unescape(Before(pairs[i], "="), TRUE)
        v(i)  == Unescape(After(pairs[i], "="), TRUE)
        hits  == {i \in 1..Len(pairs) :
                    pairs[i] # <<>> /\ k(i).ok /\ v(i).ok /\ k(i).s = <<key>>}
    IN  [ok |-> hits # {},
         s  |-> IF hits = {} THEN <<>>
                ELSE v(CHOOSE i \in hits : \A j \in hits : i <= j).s]

\* url.Values.Encode(): key=value pairs joined by '&', keys sorted.
KeyOrder ==
    <<"access_token", "autocomplete", "bbox", "country", "limit", "proximity", "types">>

EncodeKey(values, k) ==
    IF k \in DOMAIN values
    THEN [i \in 1..Len(values[k]) |-> <<k, "=">> \o QueryEscape(values[k][i])]
    ELSE <<>>

Encode(values) ==
    Join(Flatten([i \in 1..Len(KeyOrder) |-> EncodeKey(values, KeyOrder[i])]), <<"&">>)

\* url.Values.Add(key, value)
Add(values, key, value) ==
    [k \in DOMAIN values \cup {key} |->
        IF k = key
        THEN (IF key \in DOMAIN values THEN values[key] ELSE <<>>) \o <<value>>
        ELSE values[k]]

(***************************************************************************)
(* Response bodies and their decoding by json.Unmarshal                    *)
(***************************************************************************)
\* A body: whether it is JSON at all, the kind of its top-level value, and
\* the members of a top-level object.
Body(valid, top, fields) == [valid |-> valid, top |-> top, fields |-> fields]

NoBody == Body(FALSE, "", <<>>)

NoErr    == [nil |-> TRUE, msg |-> ""]
Err(msg) == [nil |-> FALSE, msg |-> msg]

\* The elements of a []*LatLonPair, in order: null leaves a nil pointer,
\* anything else goes through UnmarshalJSON, whose error ends the decoding
\* with the rows before it in place.
RECURSIVE DecodeRows(_)
DecodeRows(elems) ==
    IF elems = <<>> THEN [err |-> NoErr, rows |-> <<>>]
    ELSE LET row == IF Head(elems).t = "null"
                    THEN [err |-> "", val |-> <<>>]
                    ELSE UnmarshalJSON(Head(elems))
         IN  IF row.err # "" THEN [err |-> Err(row.err), rows |-> <<>>]
             ELSE LET rest == DecodeRows(Tail(elems))
                      ptr  == IF Head(elems).t = "null" THEN NilPair
                              ELSE PairOf(row.val)
                  IN  [err |-> rest.err, rows |-> <<ptr>> \o rest.rows]

\* json.Unmarshal(slurp, dres): [err, dres].
UnmarshalDurationResponse(body) ==
    IF ~body.valid
    THEN [err |-> Err("invalid character"), dres |-> [Durations |-> <<>>]]
    ELSE IF body.top # "object"
    THEN [err |-> Err("json: cannot unmarshal into Go value of type mapbox.DurationResponse"),
          dres |-> [Durations |-> <<>>]]
    ELSE IF "durations" \notin DOMAIN body.fields
              \/ body.fields["durations"].t = "null"
    THEN [err |-> NoErr, dres |-> [Durations |-> <<>>]]
    ELSE IF body.fields["durations"].t # "array"
    THEN [err |-> Err("json: cannot unmarshal into Go struct field DurationResponse.durations"),
          dres |-> [Durations |-> <<>>]]
    ELSE LET r == DecodeRows(body.fields["durations"].elems)
         IN  [err |-> r.err, dres |-> [Durations |-> r.rows]]

Member(body, k) == IF k \in DOMAIN body.fields THEN body.fields[k] ELSE JNull

\* json.Unmarshal(blob, gres): [err, gres].  A member of the wrong kind is
\* skipped and reported at the end; an error of UnmarshalJSON ends the
\* decoding at once.
UnmarshalGeocodeResponse(body) ==
    LET empty == [Type |-> <<>>, Query |-> NilPair, Features |-> <<>>]
        type  == Member(body, "type")
        query == Member(body, "query")
        feats == Member(body, "features")
        q     == IF query.t = "null" THEN [err |-> "", val |-> <<>>]
                 ELSE UnmarshalJSON(query)
        typeOK    == type.t \in {"null", "string"}
        featsOK   == feats.t \in {"null", "array"}
        featureOK(i) == feats.elems[i].t \in {"null", "object"}
        partial == [Type  |-> IF type.t = "string" THEN type.s ELSE <<>>,
                    Query |-> NilPair, Features |-> <<>>]
    IN  IF ~body.valid THEN [err |-> Err("invalid character"), gres |-> empty]
        ELSE IF body.top # "object"
        THEN [err |-> Err("json: cannot unmarshal into Go value of type mapbox.GeocodeResponse"),
              gres |-> empty]
        ELSE IF q.err # "" THEN [err |-> Err(q.err), gres |-> partial]
        ELSE LET gres == [Type     |-> partial.Type,
                          Query    |-> IF query.t = "null" THEN NilPair ELSE PairOf(q.val),
                          Features |-> IF feats.t = "array"
                                       THEN [i \in 1..Len(feats.elems) |->
                                                IF feats.elems[i].t = "object"
                                                THEN "feature" ELSE "nil"]
                                       ELSE <<>>]
             IN  IF typeOK /\ featsOK
                        /\ (feats.t = "array" => \A i \in 1..Len(feats.elems) : featureOK(i))
                 THEN [err |-> NoErr, gres |-> gres]
                 ELSE [err |-> Err("json: cannot unmarshal into Go struct field"),
                       gres |-> gres]

(***************************************************************************)
(* The test backend tBackend                                               *)
(***************************************************************************)
\* Stand-ins with exact binary fractions for the fixture's coordinates
\* [13.41894,52.50055], [14.10293,52.50055], [13.50116,53.10293], and a
\* location the fixture does not know.
LocA == <<Num(27, 1), Num(105, 1)>>
LocB == <<Num(113, 3), Num(105, 1)>>
LocC == <<Num(27, 1), Num(425, 3)>>
LocD == <<Whole(-1), Whole(0)>>

\* json.Marshal of a *LatLonPair: [13.5,52.5]
RowSig(row) ==
    <<"[">> \o Join([i \in 1..Len(row) |-> Shortest(row[i])], <<",">>) \o <<"]">>

durationsMap ==
    [from \in {RowSig(LocA), RowSig(LocB), RowSig(LocC)} |->
        CASE from = RowSig(LocA) ->
                [to \in {RowSig(LocB)} |-> Whole(2910)]
          [] from = RowSig(LocB) ->
                [to \in {RowSig(LocA), RowSig(LocC)} |->
                    IF to = RowSig(LocA) THEN Whole(2903) ELSE Whole(5839)]
          [] OTHER ->
                [to \in {RowSig(LocA), RowSig(LocB)} |->
                    IF to = RowSig(LocA) THEN Whole(4695) ELSE Whole(5745)]]

\* path[j] of row i in durationRoundTrip.
StubDuration(coords, i, j) ==
    LET rowSig   == RowSig(coords[i])
        otherSig == RowSig(coords[j])
    IN  IF j = i THEN Whole(0)
        ELSE IF rowSig \notin DOMAIN durationsMap THEN NoPathDuration
        ELSE IF otherSig \in DOMAIN durationsMap[rowSig]
             THEN durationsMap[rowSig][otherSig]
             ELSE NoPathDuration

\* The rows json.Unmarshal(slurp, mat) gives the backend.
StubCoordinates(blob) ==
    LET r == DecodeRows(Member(blob, "coordinates").elems)
    IN  [i \in 1..Len(r.rows) |-> r.rows[i].elems]

\* The 200 response of durationRoundTrip: the matrix, marshalled; an empty
\* durations list is left out (omitempty).
durationRoundTrip(req) ==
    LET coords == StubCoordinates(req.Body)
        n      == Len(coords)
        matrix == JArray([i \in 1..n |->
                     JFloats([j \in 1..n |-> StubDuration(coords, i, j)])])
    IN  [StatusCode |-> 200, Status |-> "200 OK", pending |-> FALSE,
         Body |-> IF n = 0 THEN Body(TRUE, "object", <<>>)
                  ELSE Body(TRUE, "object", [k \in {"durations"} |-> matrix])]

knownPlace == <<"Los", " ", "Angeles">>

\* strings.TrimSuffix(placeInfo, ".json")
TrimJSONSuffix(s) ==
    IF s # <<>> /\ s[Len(s)] = ".json" THEN SubSeq(s, 1, Len(s) - 1) ELSE s

\* The responses of geocodeRoundTrip: 404 for a place it does not know;
\* for a known one the fixture file (200, contents read later) or 500 when
\* the file does not open.
geocodeRoundTrip(req) ==
    LET splits == Split(req.URL.Path, "/")
        place  == TrimJSONSuffix(splits[Len(splits)])
    IN  IF req.Method # "GET"
        THEN {[StatusCode |-> 405, Status |-> "only GET allowed", pending |-> FALSE,
               Body |-> NoBody]}
        ELSE IF place # knownPlace
        THEN {[StatusCode |-> 404, Status |-> "\"\" not found", pending |-> FALSE,
               Body |-> NoBody]}
        ELSE {[StatusCode |-> 200, Status |-> "200 OK", pending |-> TRUE, Body |-> NoBody],
              [StatusCode |-> 500, Status |-> "open: no such file", pending |-> FALSE,
               Body |-> NoBody]}

\* strings.Contains(path, "/" + segment)
HasSegment(path, segment) ==
    \E i \in 1..(Len(path) - 1) : path[i] = "/" /\ path[i + 1] = segment

\* tBackend.RoundTrip
RoundTrip(req) ==
    IF HasSegment(req.URL.Path, "distances") THEN {durationRoundTrip(req)}
    ELSE IF HasSegment(req.URL.Path, "geocoding") THEN geocodeRoundTrip(req)
    ELSE {[StatusCode |-> 404, Status |-> "Not Found", pending |-> FALSE,
           Body |-> NoBody]}

(***************************************************************************)
(* The client and its configuration                                        *)
(***************************************************************************)
defaultAPIVersion == <<"v1">>

\* Client.APIKey(), under the read lock
APIKey == IF apiKey # <<>> THEN apiKey ELSE defaultEnvAPIKey

\* Client.APIVersion(), under the read lock
APIVersion == IF version # <<>> THEN version ELSE defaultAPIVersion

\* Client._httpClient(), under the read lock
HTTPClientOf == IF httpClient # "nil" THEN httpClient ELSE "http.DefaultClient"

\* Client.durationsURL()
durationsURL ==
    baseURL \o <<"/", "distances", "/">> \o APIVersion
        \o <<"/", "mapbox", "/", "driving", "?", "access_token", "=">> \o APIKey

statusOKThrough300(c) == c >= 200 /\ c <= 300

statusOK(c) == c >= 200 /\ c <= 299

GeocodePlaces          == "mapbox.places"
GeocodePermanentPlaces == "mapbox.places-permanent"

\* GeocodeMode.String()
ModeString(gm) == IF gm = "" THEN GeocodePlaces ELSE gm

NilResp == [nil |-> TRUE]
NilReq  == [nil |-> TRUE]
NoRes   == [StatusCode |-> 0, Status |-> "", pending |-> FALSE, Body |-> NoBody]

\* http.NewRequest(method, url, body): [err, req]
NewRequest(method, rawURL, body) ==
    LET u == ParseURL(rawURL) IN
    IF u.err # "" THEN [err |-> Err(u.err), req |-> NilReq]
    ELSE [err |-> NoErr,
          req |-> [nil |-> FALSE, Method |-> method, URL |-> u, Body |-> body]]

(***************************************************************************)
(* What lies behind the HTTP client                                        *)
(***************************************************************************)
StatusCodes == {199, 200, 299, 300, 404}

StatusText ==
    [c \in StatusCodes |->
        CASE c = 199 -> "199 "
          [] c = 200 -> "200 OK"
          [] c = 299 -> "299 "
          [] c = 300 -> "300 Multiple Choices"
          [] OTHER   -> "404 Not Found"]

Row(elems) == JArray(elems)

\* Bodies a service may answer with.
Bodies ==
    {NoBody,
     Body(TRUE, "array", <<>>),
     Body(TRUE, "object", <<>>),
     Body(TRUE, "object", [k \in {"durations"} |-> JNum(Whole(7))]),
     Body(TRUE, "object", [k \in {"durations"} |->
        JArray(<<Row(<<JNum(Whole(0)), JNum(Whole(2910)), JNull>>),
                 Row(<<JNum(Whole(2903)), JNum(Whole(0))>>)>>)]),
     Body(TRUE, "object", [k \in {"durations"} |->
        JArray(<<JNull, Row(<<JNum(Whole(-1))>>)>>)]),
     Body(TRUE, "object", [k \in {"durations"} |->
        JArray(<<Row(<<JNum(Whole(1))>>), JNum(Whole(5))>>)]),
     Body(TRUE, "object", [k \in {"type", "query", "features"} |->
        CASE k = "type"  -> JStr(<<"FeatureCollection">>)
          [] k = "query" -> JArray(<<JStr(<<"los">>), JStr(<<"angeles">>)>>)
          [] OTHER       -> JArray(<<JObj>>)]),
     Body(TRUE, "object", [k \in {"type", "query"} |->
        CASE k = "type"  -> JStr(<<"FeatureCollection">>)
          [] OTHER       -> JNum(Whole(3))]),
     Body(TRUE, "object", [k \in {"type", "features"} |->
        CASE k = "type"  -> JNum(Whole(5))
          [] OTHER       -> JArray(<<JObj>>)])}

\* httpClient.Do(req): the outcomes [err, res].  The default client talks
\* to the network: it fails, or answers with any status; the body arrives
\* when it is read.  A client built on tBackend answers as RoundTrip does.
Do(client, req) ==
    IF client = "tBackend"
    THEN {[err |-> NoErr, res |-> r] : r \in RoundTrip(req)}
    ELSE {[err |-> Err("dial tcp: connection refused"), res |-> NoRes]}
            \cup {[err |-> NoErr,
                   res |-> [StatusCode |-> c, Status |-> StatusText[c],
                            pending |-> TRUE, Body |-> NoBody]] : c \in StatusCodes}

\* ioutil.ReadAll(res.Body): the outcomes [err, body]
ReadAll(r) ==
    IF r.pending
    THEN {[err |-> Err("unexpected EOF"), body |-> NoBody]}
            \cup {[err |-> NoErr, body |-> b] : b \in Bodies}
    ELSE {[err |-> NoErr, body |-> r.Body]}

(***************************************************************************)
(* The public operations, step by step                                     *)
(***************************************************************************)
GeoOps == {"LookupPlace", "LookupLatLon", "ReverseGeocoding"}

NoArg == [Query |-> <<>>, Mode |-> "", Request |-> NilRequest, Coordinates |-> <<>>]

pureVars == <<cIn, cOut, cPc, uIn, uOut, uPc>>

\* return resp, err: the call ends at `step` and a deferred Close runs.
Return(resp, err, step, closing) ==
    /\ pc' = "done"
    /\ ret' = [resp |-> resp, err |-> err]
    /\ failed' = step
    /\ bodyClosed' = IF closing THEN bodyClosed + 1 ELSE bodyClosed

\* What the decoding step returns: nil and the error, or the response.
ReturnPartial(r, resp) ==
    IF ~r.err.nil THEN Return([nil |-> FALSE, val |-> resp], r.err, "decode", deferred)
    ELSE Return([nil |-> FALSE, val |-> resp], NoErr, "", deferred)

ReturnDecoded(r, resp) ==
    IF ~r.err.nil THEN Return(NilResp, r.err, "decode", deferred)
    ELSE Return([nil |-> FALSE, val |-> resp], NoErr, "", deferred)

SetAPIKey(key) ==
    /\ pc = "idle"
    /\ apiKey' = key
    /\ lastSet' = [set |-> TRUE, key |-> key]
    /\ UNCHANGED <<defaultEnvAPIKey, version, httpClient, callVars, pureVars, lockVars, pairVars>>

\* A caller enters a public operation with its request.
Enter(request) ==
    /\ pc = "idle"
    /\ pc' = "encode"
    /\ arg' = request
    /\ UNCHANGED <<encoded, hreq, roundTrips, res, deferred, bodyClosed, bodyReads,
                   decodes, slurp, ret, failed, clientVars, pureVars, lockVars, pairVars>>

\* LookupPlace(query)
LookupPlace(query) ==
    /\ op' = "LookupPlace"
    /\ Enter([NoArg EXCEPT !.Query = query])

\* LookupLatLon(lat, lon): the query is "lon,lat"
LookupLatLon(lat, lon) ==
    /\ op' = "LookupLatLon"
    /\ Enter([NoArg EXCEPT !.Query = FixedPoint(lon) \o <<",">> \o FixedPoint(lat)])

\* ReverseGeocoding(req)
ReverseGeocoding(query, mode, request) ==
    /\ op' = "ReverseGeocoding"
    /\ Enter([NoArg EXCEPT !.Query = query, !.Mode = mode, !.Request = request])

\* RequestDuration(dreq)
RequestDuration(coordinates) ==
    /\ op' = "RequestDuration"
    /\ Enter([NoArg EXCEPT !.Coordinates = coordinates])

\* doGeoCodingRequest: toURLValues(req.Request)
GeoEncode ==
    /\ pc = "encode" /\ op \in GeoOps
    /\ LET r == toURLValues(arg.Request) IN
       IF r.err # ""
       THEN /\ Return(NilResp, Err(r.err), "serialize", FALSE)
            /\ UNCHANGED encoded
       ELSE /\ pc' = "build"
            /\ encoded' = r.values
            /\ UNCHANGED <<ret, failed, bodyClosed>>
    /\ UNCHANGED <<op, arg, hreq, roundTrips, res, deferred, bodyReads, decodes,
                   slurp, clientVars, pureVars, lockVars, pairVars>>

\* The URL doGeoCodingRequest formats.
outURL(values) ==
    baseURL \o <<"/", "geocoding", "/", "v5", "/", ModeString(arg.Mode), "/">>
        \o arg.Query \o <<".json", "?">> \o Encode(values)

\* doGeoCodingRequest: access_token, outURL, http.NewRequest
GeoBuild ==
    /\ pc = "build" /\ op \in GeoOps
    /\ LET asURLValues == Add(encoded, "access_token", APIKey)
           r == NewRequest("GET", outURL(asURLValues), NoBody)
       IN  IF ~r.err.nil
           THEN /\ Return(NilResp, r.err, "newrequest", FALSE)
                /\ UNCHANGED hreq
           ELSE /\ pc' = "send"
                /\ hreq' = r.req
                /\ UNCHANGED <<ret, failed, bodyClosed>>
    /\ UNCHANGED <<op, arg, encoded, roundTrips, res, deferred, bodyReads, decodes,
                   slurp, clientVars, pureVars, lockVars, pairVars>>

\* A Do that hands the request over a second time when the first fails.
SendRetrying ==
    /\ \E o \in Do(HTTPClientOf, hreq) :
          IF ~o.err.nil
          THEN /\ roundTrips' = roundTrips + 2
               /\ Return(NilResp, o.err, "transport", FALSE)
               /\ UNCHANGED res
          ELSE /\ roundTrips' = roundTrips + 1
               /\ pc' = "status"
               /\ res' = o.res
               /\ UNCHANGED <<ret, failed, bodyClosed>>
    /\ UNCHANGED <<op, arg, encoded, hreq, deferred, bodyReads, decodes, slurp,
                   clientVars, pureVars, lockVars, pairVars>>

\* httpClient.Do(hreq) and the check of its error
Send ==
    /\ roundTrips' = roundTrips + 1
    /\ \E o \in Do(HTTPClientOf, hreq) :
          IF ~o.err.nil
          THEN /\ Return(NilResp, o.err, "transport", FALSE)
               /\ UNCHANGED res
          ELSE /\ pc' = "status"
               /\ res' = o.res
               /\ UNCHANGED <<ret, failed, bodyClosed>>
    /\ UNCHANGED <<op, arg, encoded, hreq, deferred, bodyReads, decodes, slurp,
                   clientVars, pureVars, lockVars, pairVars>>

GeoSend == pc = "send" /\ op \in GeoOps /\ Send

\* A status check placed before the defer: the error return closes nothing.
CheckStatusBeforeDefer ==
    /\ IF ~statusOK(res.StatusCode)
       THEN /\ Return(NilResp, Err(res.Status), "status", FALSE)
            /\ UNCHANGED deferred
       ELSE /\ pc' = "read"
            /\ deferred' = TRUE
            /\ UNCHANGED <<ret, failed, bodyClosed>>
    /\ UNCHANGED <<op, arg, encoded, hreq, roundTrips, res, bodyReads, decodes, slurp,
                   clientVars, pureVars, lockVars, pairVars>>

\* defer res.Body.Close() and the status check
CheckStatus ==
    /\ deferred' = TRUE
    /\ IF ~statusOK(res.StatusCode)
       THEN Return(NilResp, Err(res.Status), "status", TRUE)
       ELSE /\ pc' = "read"
            /\ UNCHANGED <<ret, failed, bodyClosed>>
    /\ UNCHANGED <<op, arg, encoded, hreq, roundTrips, res, bodyReads, decodes, slurp,
                   clientVars, pureVars, lockVars, pairVars>>

GeoStatus == pc = "status" /\ op \in GeoOps /\ CheckStatus

\* ioutil.ReadAll(res.Body)
Read ==
    /\ bodyReads' = bodyReads + 1
    /\ \E r \in ReadAll(res) :
          IF ~r.err.nil
          THEN /\ Return(NilResp, r.err, "read", deferred)
               /\ UNCHANGED slurp
          ELSE /\ pc' = "decode"
               /\ slurp' = r.body
               /\ UNCHANGED <<ret, failed, bodyClosed>>
    /\ UNCHANGED <<op, arg, encoded, hreq, roundTrips, res, deferred, decodes,
                   clientVars, pureVars, lockVars, pairVars>>

GeoRead == pc = "read" /\ op \in GeoOps /\ Read

\* json.Unmarshal(blob, gres) and the return
GeoDecode ==
    /\ pc = "decode" /\ op \in GeoOps
    /\ decodes' = decodes + 1
    /\ LET r == UnmarshalGeocodeResponse(slurp) IN ReturnDecoded(r, r.gres)
    /\ UNCHANGED <<op, arg, encoded, hreq, roundTrips, res, deferred, bodyReads, slurp,
                   clientVars, pureVars, lockVars, pairVars>>

\* RequestDuration: json.Marshal(dreq)
MarshalDurationRequest(dreq) ==
    IF \E i \in 1..Len(dreq.Coordinates) : ~AllFinite(dreq.Coordinates[i])
    THEN [err |-> Err("json: unsupported value"), encoded |-> NoBody]
    ELSE [err |-> NoErr,
          encoded |-> Body(TRUE, "object", [k \in {"coordinates"} |->
                     JArray([i \in 1..Len(dreq.Coordinates) |->
                                JFloats(dreq.Coordinates[i])])])]

DurationMarshal ==
    /\ pc = "encode" /\ op = "RequestDuration"
    /\ LET r == MarshalDurationRequest(arg) IN
       IF ~r.err.nil
       THEN /\ Return(NilResp, r.err, "serialize", FALSE)
            /\ UNCHANGED encoded
       ELSE /\ pc' = "build"
            /\ encoded' = r.encoded
            /\ UNCHANGED <<ret, failed, bodyClosed>>
    /\ UNCHANGED <<op, arg, hreq, roundTrips, res, deferred, bodyReads, decodes,
                   slurp, clientVars, pureVars, lockVars, pairVars>>

\* RequestDuration: req, _ := http.NewRequest("POST", c.durationsURL(), ...)
DurationBuild ==
    /\ pc = "build" /\ op = "RequestDuration"
    /\ LET r == NewRequest("POST", durationsURL, encoded) IN
       /\ hreq' = r.req
       /\ failed' = IF r.err.nil THEN "" ELSE "newrequest"
    /\ pc' = "send"
    /\ UNCHANGED <<op, arg, encoded, roundTrips, res, deferred, bodyClosed, bodyReads,
                   decodes, slurp, ret, clientVars, pureVars, lockVars, pairVars>>

\* RequestDuration: httpClient.Do(req); a nil req is dereferenced
DurationSend ==
    /\ pc = "send" /\ op = "RequestDuration"
    /\ IF hreq.nil
       THEN /\ pc' = "panic"
            /\ UNCHANGED <<op, arg, encoded, hreq, roundTrips, res, deferred, bodyClosed,
                           bodyReads, decodes, slurp, ret, failed, clientVars, pureVars, lockVars, pairVars>>
       ELSE Send

\* RequestDuration: if res.Body != nil { defer res.Body.Close() }, status
DurationStatus == pc = "status" /\ op = "RequestDuration" /\ CheckStatus

DurationRead == pc = "read" /\ op = "RequestDuration" /\ Read

DurationDecode ==
    /\ pc = "decode" /\ op = "RequestDuration"
    /\ decodes' = decodes + 1
    /\ LET r == UnmarshalDurationResponse(slurp) IN ReturnDecoded(r, r.dres)
    /\ UNCHANGED <<op, arg, encoded, hreq, roundTrips, res, deferred, bodyReads, slurp,
                   clientVars, pureVars, lockVars, pairVars>>

\* The caller has its result; the client is free for the next call.
Returned ==
    /\ pc = "done"
    /\ pc' = "idle"
    /\ op' = "" /\ arg' = NoArg /\ encoded' = <<>> /\ hreq' = NilReq
    /\ roundTrips' = 0 /\ res' = NoRes /\ deferred' = FALSE
    /\ bodyClosed' = 0 /\ bodyReads' = 0 /\ decodes' = 0 /\ slurp' = NoBody
    /\ ret' = [resp |-> NilResp, err |-> NoErr] /\ failed' = ""
    /\ UNCHANGED <<clientVars, pureVars, lockVars, pairVars>>

(***************************************************************************)
(* The inputs                                                              *)
(***************************************************************************)
MaxCoords == 3

\* The goroutines that share one client.
MaxProcs == 2

Procs == 1..MaxProcs

NoProc == 0

\* A goroutine that is in no call, and the zero value of the RWMutex.
Idle == [op |-> "", step |-> 0, at |-> "idle", key |-> <<>>]

Unlocked == [readers |-> {}, w |-> NoProc, held |-> FALSE]

\* No round trip through the codec is under way.
PairOff ==
    /\ rtIn = NilSlicePair
    /\ rtMid = [err |-> "", val |-> <<>>]
    /\ rtOut = [err |-> "", val |-> <<>>]
    /\ rtPc = "off"

\* One caller at a time: the client is already returned and nobody locks.
LockOff ==
    /\ mu = Unlocked
    /\ callers = [p \in Procs |-> Idle]
    /\ published = "off"

EnvKeys == {<<>>, <<"pk.env">>}
Keys    == {<<>>, <<"pk.1">>, <<"pk", "#", "1">>, <<"pk", Ctl>>}

Queries == {knownPlace, <<"Paris">>, <<"100", "%">>, <<"a", "/", "b">>, <<"a", "?", "b">>}

Modes == {"", GeocodePlaces, GeocodePermanentPlaces}

Filters ==
    {NilRequest,
     GeocodeRequest(<<>>, 0, <<>>, NilPair, <<>>, TRUE),
     GeocodeRequest(<<>>, 12, <<>>, NilPair, <<>>, FALSE),
     GeocodeRequest(<<>>, 0, <<>>, NilPair, <<NaN>>, FALSE)}

Locations == {LocA, LocB, LocC, LocD}

CoordinateLists ==
    SeqsUpTo(Locations, MaxCoords) \cup {<<<<NaN, Whole(0)>>>>, <<LocA, <<NaN>>>>}

Init ==
    /\ cIn = JNull /\ cOut = [err |-> "", val |-> <<>>] /\ cPc = "off"
    /\ uIn = NilRequest /\ uOut = [err |-> "", values |-> <<>>] /\ uPc = "off"
    /\ defaultEnvAPIKey \in EnvKeys
    /\ apiKey = <<>>
    /\ version = <<>>
    /\ httpClient \in {"nil", "tBackend"}
    /\ lastSet = [set |-> FALSE, key |-> <<>>]
    /\ pc = "idle"
    /\ op = "" /\ arg = NoArg /\ encoded = <<>> /\ hreq = NilReq
    /\ roundTrips = 0 /\ res = NoRes /\ deferred = FALSE
    /\ bodyClosed = 0 /\ bodyReads = 0 /\ decodes = 0 /\ slurp = NoBody
    /\ ret = [resp |-> NilResp, err |-> NoErr] /\ failed = ""
    /\ LockOff
    /\ PairOff

Next ==
    \/ \E key \in Keys : SetAPIKey(key)
    \/ \E q \in Queries : LookupPlace(q)
    \/ LookupLatLon(Num(77, 1), Num(-309, 2))
    \/ \E q \in {knownPlace, <<"100", "%">>}, m \in Modes, f \in Filters :
            ReverseGeocoding(q, m, f)
    \/ \E cs \in CoordinateLists : RequestDuration(cs)
    \/ GeoEncode
    \/ GeoBuild
    \/ GeoSend
    \/ GeoStatus
    \/ GeoRead
    \/ GeoDecode
    \/ DurationMarshal
    \/ DurationBuild
    \/ DurationSend
    \/ DurationStatus
    \/ DurationRead
    \/ DurationDecode
    \/ Returned

Spec == Init /\ [][Next]_vars

(***************************************************************************)
(* Claims about the operations                                             *)
(***************************************************************************)
Done == pc = "done"

\* The fixture as a table of ordered pairs of locations.
MappedPairs ==
    [p \in {<<LocA, LocB>>, <<LocB, LocA>>, <<LocB, LocC>>, <<LocC, LocA>>,
            <<LocC, LocB>>} |->
        CASE p = <<LocA, LocB>> -> Whole(2910)
          [] p = <<LocB, LocA>> -> Whole(2903)
          [] p = <<LocB, LocC>> -> Whole(5839)
          [] p = <<LocC, LocA>> -> Whole(4695)
          [] OTHER              -> Whole(5745)]

ExpectedDuration(coords, i, j) ==
    IF i = j THEN Whole(0)
    ELSE IF <<coords[i], coords[j]>> \in DOMAIN MappedPairs
    THEN MappedPairs[<<coords[i], coords[j]>>]
    ELSE NoPathDuration

DurationAnswered ==
    Done /\ op = "RequestDuration" /\ httpClient = "tBackend" /\ roundTrips = 1

\* C2: a DurationRequest of N coordinates answered by the test backend from
\* its fixed mapping comes back without error as the matrix with 0 at
\* (i,i), the mapped duration at each mapped (i,j), and -1 elsewhere.
C2_StubMatrixRoundTrips ==
    DurationAnswered =>
        /\ ret.err.nil
        /\ ~ret.resp.nil
        /\ LET rows == ret.resp.val.Durations
               n    == Len(arg.Coordinates)
           IN  /\ Len(rows) = n
               /\ \A i \in 1..n :
                    /\ rows[i].kind = "slice"
                    /\ rows[i].elems =
                         [j \in 1..n |-> ExpectedDuration(arg.Coordinates, i, j)]

C2_Witness ==
    /\ DurationAnswered
    /\ arg.Coordinates = <<LocA, LocB, LocC>>
    /\ ret.resp.val.Durations =
         <<PairOf(<<Whole(0), Whole(2910), NoPathDuration>>),
           PairOf(<<Whole(2903), Whole(0), Whole(5839)>>),
           PairOf(<<Whole(4695), Whole(5745), Whole(0)>>)>>

DurationSucceeded == Done /\ op = "RequestDuration" /\ ret.err.nil

\* C3 as stated: every DurationResponse returned without error has N rows
\* of length N, N the number of coordinates of the request.
C3_ResponseIsNByN ==
    DurationSucceeded =>
        LET rows == ret.resp.val.Durations
            n    == Len(arg.Coordinates)
        IN  /\ Len(rows) = n
            /\ \A i \in 1..Len(rows) : Len(rows[i].elems) = n

\* C3 (amended): a DurationResponse returned without error has the shape
\* of the durations array of the body: as many rows, each row that is an
\* array as long as the body's; so N rows of length N when the service
\* answers with an N by N matrix, as the test backend does.
C3_ResponseHasShapeOfBody ==
    DurationSucceeded =>
        LET rows == ret.resp.val.Durations
            sent == Member(slurp, "durations").elems
            n    == Len(arg.Coordinates)
        IN  /\ ~ret.resp.nil
            /\ Len(rows) = Len(sent)
            /\ \A i \in 1..Len(sent) :
                  IF sent[i].t = "array"
                  THEN rows[i].kind = "slice" /\ Len(rows[i].elems) = Len(sent[i].elems)
                  ELSE rows[i] = NilPair
            /\ httpClient = "tBackend" =>
                  (Len(rows) = n /\ \A i \in 1..n : Len(rows[i].elems) = n)

C3_Witness ==
    /\ DurationSucceeded
    /\ httpClient = "nil"
    /\ Len(arg.Coordinates) = 3
    /\ Len(ret.resp.val.Durations) = 2
    /\ ret.resp.val.Durations[1].elems = <<Whole(0), Whole(2910), NoPathDuration>>

Received == res # NoRes

\* C5: when the response's status code lies outside 200..299, the call
\* returns an error whose message is the response's status text, and the
\* body is neither read nor decoded.
C5_BadStatusIsTheError ==
    (Received /\ res.StatusCode \notin 200..299) =>
        /\ bodyReads = 0
        /\ decodes = 0
        /\ pc \in {"status", "done"}
        /\ Done => ret = [resp |-> NilResp, err |-> Err(res.Status)]

C5_Witness ==
    /\ Done /\ op = "RequestDuration"
    /\ res.StatusCode = 300
    /\ ret.err = Err("300 Multiple Choices")
    /\ bodyReads = 0

\* C6: every return carries exactly one of a response and an error; with
\* an error the response is nil, never a partly filled structure.
C6_ResponseOrError ==
    Done => (ret.resp.nil <=> ~ret.err.nil)

C6_Witness ==
    /\ Done /\ op = "RequestDuration"
    /\ failed = "decode"
    /\ UnmarshalDurationResponse(slurp).dres.Durations # <<>>
    /\ ret.resp.nil /\ ~ret.err.nil

Ended == pc \in {"done", "panic"}

C8_BodyClosedOnce ==
    /\ bodyClosed <= 1
    /\ (Done /\ Received) => bodyClosed = 1
    /\ ~Received => bodyClosed = 0

C8_Witness ==
    /\ Done /\ Received
    /\ failed = "status"
    /\ bodyClosed = 1

\* C9: the failure of any step is returned as a non-nil error and the call
\* does not go on past a failed step.
C9_EveryFailureReturned ==
    failed # "" => (Done /\ ~ret.err.nil)

\* The key APIKey() is to return after the SetAPIKey calls made so far.
ResolvedKey ==
    IF lastSet.set /\ lastSet.key # <<>> THEN lastSet.key ELSE defaultEnvAPIKey

\* The value of access_token in the request handed to the HTTP client.
TokenSent == QueryValues(hreq.URL.RawQuery, "access_token")

\* C10: APIKey() is the latest key set when that is not empty and the
\* default from the environment otherwise, and the access token an
\* operation sends is that value.
C10_TokenSentIsAPIKey ==
    /\ APIKey = ResolvedKey
    /\ roundTrips = 1 => (TokenSent.ok /\ TokenSent.s = ResolvedKey)

\* The first half of C10 alone.
C10_APIKeyResolved == APIKey = ResolvedKey

\* The URL a geocoding call formats, and the part of it before '?' and '#'.
GeoURL == outURL(Add(encoded, "access_token", APIKey))

PathOf(raw) == Tail(Before(Before(raw, "#"), "?"))

\* The last path segment, unescaped, is the query followed by .json.
IsQuerySegment(segment) ==
    LET u == Unescape(segment, FALSE)
    IN  u.ok /\ u.s = arg.Query \o <<".json">>

\* C12: whatever the query holds, the geocoding request is built, its path
\* is /geocoding/v5/{mode}/{query}.json with the query escaped into the one
\* last segment and the mode mapbox.places when unset, and its parameters
\* are the filter's and access_token.
C12_QueryStaysInItsSegment ==
    /\ (op \in GeoOps /\ pc = "done") => failed # "newrequest"
    /\ (op \in GeoOps /\ pc = "send") =>
        LET segments == Split(PathOf(GeoURL), "/") IN
        /\ Len(segments) = 5
        /\ SubSeq(segments, 1, 4) =
                <<<<>>, <<"geocoding">>, <<"v5">>, <<ModeString(arg.Mode)>>>>
        /\ arg.Mode = "" => segments[4] = <<GeocodePlaces>>
        /\ IsQuerySegment(segments[5])
        /\ hreq.URL.RawQuery = Encode(Add(encoded, "access_token", APIKey))
        /\ hreq.URL.Fragment = <<>>

(***************************************************************************)
(* The codec on its own                                                    *)
(***************************************************************************)
MaxLen == 3

\* -(2^25 + 1) / 2^25: a quarter of float32's spacing below -1.
NearMinusOne == Num(-(2 ^ (Float32Bits + 1) + 1), Float32Bits + 1)
\* 2^24 + 1, the first whole number float32 cannot hold.
BigOdd == Whole(2 ^ Float32Bits + 1)

CodecElems ==
    {JNull, JStr(<<"x">>), JBool(TRUE),
     JNum(Whole(0)), JNum(Whole(-1)), JNum(Whole(2910)), JNum(Num(5, 1)),
     JNum(NearMinusOne), JNum(BigOdd)}

CodecInputs ==
    {JArray(s) : s \in SeqsUpTo(CodecElems, MaxLen)}
        \cup {JNull, JObj, JNum(Whole(0))}

\* No client is at work while a codec is exercised on its own.
ClientOff ==
    /\ defaultEnvAPIKey = <<>> /\ apiKey = <<>> /\ version = <<>>
    /\ httpClient = "nil" /\ lastSet = [set |-> FALSE, key |-> <<>>]
    /\ pc = "off" /\ op = "" /\ arg = NoArg /\ encoded = <<>> /\ hreq = NilReq
    /\ roundTrips = 0 /\ res = NoRes /\ deferred = FALSE
    /\ bodyClosed = 0 /\ bodyReads = 0 /\ decodes = 0 /\ slurp = NoBody
    /\ ret = [resp |-> NilResp, err |-> NoErr] /\ failed = ""
    /\ LockOff
    /\ PairOff

CodecInit ==
    /\ cIn \in CodecInputs
    /\ cOut = [err |-> "", val |-> <<>>]
    /\ cPc = "input"
    /\ uIn = NilRequest /\ uOut = [err |-> "", values |-> <<>>] /\ uPc = "off"
    /\ ClientOff

CodecUnmarshal ==
    /\ cPc = "input"
    /\ cOut' = UnmarshalJSON(cIn)
    /\ cPc' = "done"
    /\ UNCHANGED <<cIn, encoderVars, clientVars, callVars, lockVars, pairVars>>

CodecNext == CodecUnmarshal

SpecCodec == CodecInit /\ [][CodecNext]_vars

(***************************************************************************)
(* Claims about the codec                                                  *)
(***************************************************************************)
\* y is a float32 nearest to x: x itself when x fits 24 significant bits,
\* and otherwise a 24-bit value no further from x than half the spacing of
\* float32 at x.
RECURSIVE OddPart(_)
OddPart(a) == IF a = 0 \/ a % 2 = 1 THEN a ELSE OddPart(a \div 2)

IsNearestFloat32(x, y) ==
    LET n == BitLen(Abs(x.m)) IN
    IF BitLen(OddPart(Abs(x.m))) <= Float32Bits THEN y = x
    ELSE /\ BitLen(OddPart(Abs(y.m))) <= Float32Bits
         /\ y.e <= x.e
         /\ 2 * Abs(x.m - y.m * 2 ^ (x.e - y.e)) <= 2 ^ (n - Float32Bits)

CodecDecoded == cPc = "done" /\ cIn.t = "array"

LimitValues     == {0, 1, 12}
CountryValues   == {<<>>, <<<<"US">>>>, <<<<"US">>, <<"CA">>>>}
TypesValues     == {<<>>, <<<<"poi">>>>}
ProximityValues == {NilPair, NilSlicePair, PairOf(<<>>),
                    PairOf(<<Num(3, 1), Whole(2)>>), PairOf(<<NaN>>)}
BoundingBoxValues == {<<>>, <<Whole(1), Whole(2), Whole(3), Whole(4)>>}

EncoderInputs ==
    {NilRequest} \cup
    {GeocodeRequest(c, l, t, p, b, a) :
        c \in CountryValues, l \in LimitValues, t \in TypesValues,
        p \in ProximityValues, b \in BoundingBoxValues, a \in BOOLEAN}

EncoderInit ==
    /\ uIn \in EncoderInputs
    /\ uOut = [err |-> "", values |-> <<>>]
    /\ uPc = "input"
    /\ cIn = JNull /\ cOut = [err |-> "", val |-> <<>>] /\ cPc = "off"
    /\ ClientOff

EncoderEncode ==
    /\ uPc = "input"
    /\ uOut' = toURLValues(uIn)
    /\ uPc' = "done"
    /\ UNCHANGED <<uIn, codecVars, clientVars, callVars, lockVars, pairVars>>

EncoderNext == EncoderEncode

SpecEncoder == EncoderInit /\ [][EncoderNext]_vars

\* The fields of a request that are set, by their parameter names.
FieldsSet(r) ==
    {k \in {"country", "limit", "types", "proximity", "bbox", "autocomplete"} :
        CASE k = "country"      -> Len(r.Country) > 0
          [] k = "limit"        -> r.Limit # 0
          [] k = "types"        -> Len(r.Types) > 0
          [] k = "proximity"    -> r.Proximity.kind = "slice"
          [] k = "bbox"         -> Len(r.BoundingBox) > 0
          [] OTHER              -> r.AutoComplete}

\* C4: toURLValues emits no parameter for a field that is unset or zero and
\* one for each field that is set; a request with only Limit set yields
\* exactly the parameter limit, holding Limit in decimal.
C4_OneParameterPerSetField ==
    (uPc = "done" /\ ~uIn.isNil /\ uOut.err = "") =>
        /\ DOMAIN uOut.values = FieldsSet(uIn)
        /\ FieldsSet(uIn) = {"limit"} =>
               uOut.values = [k \in {"limit"} |-> <<Decimal(uIn.Limit)>>]

\* The occurrences of a parameter in the values returned.
Occurrences(key) == IF key \in DOMAIN uOut.values THEN uOut.values[key] ELSE <<>>

\* C14: for a Proximity of k elements toURLValues emits k + 1 occurrences
\* of proximity: each element in fixed-point form, in order, and then the
\* default string form of the whole pair.
C14_ProximityOccurrences ==
    (uPc = "done" /\ ~uIn.isNil /\ uIn.Proximity.kind # "nilptr" /\ uOut.err = "") =>
        LET elems == uIn.Proximity.elems IN
        /\ Len(Occurrences("proximity")) = Len(elems) + 1
        /\ Occurrences("proximity") =
                [i \in 1..Len(elems) |-> FixedPoint(elems[i])] \o <<DefaultString(elems)>>

(***************************************************************************)
(* Concurrent callers of one client.  Each goroutine runs the calls its    *)
(* operation makes on the client's RWMutex, one step at a time: RLock,     *)
(* the read of the field, the deferred RUnlock; Lock, the assignment, the  *)
(* deferred Unlock; and the round trip of the HTTP client.                 *)
(***************************************************************************)
LockKeys == {<<"pk.1">>}

LockOps == {"SetAPIKey", "LookupPlace", "ReverseGeocoding", "RequestDuration"}

\* The calls of an operation that touch the client's fields or the network,
\* in the order the code makes them.
Calls(o) ==
    CASE o = "SetAPIKey"       -> <<"SetAPIKey">>
      [] o = "RequestDuration" -> <<"APIVersion", "APIKey", "_httpClient", "Do">>
      [] OTHER                 -> <<"APIKey", "_httpClient", "Do">>

\* The field a call reads or assigns.
FieldOf(call) ==
    CASE call \in {"SetAPIKey", "APIKey"} -> "apiKey"
      [] call = "APIVersion"              -> "version"
      [] call = "_httpClient"             -> "httpClient"
      [] OTHER                            -> ""

\* Where a call starts.
EntryOf(call) ==
    CASE call = "SetAPIKey" -> "Lock"
      [] call = "Do"        -> "send"
      [] OTHER              -> "RLock"

\* The call a goroutine is in.
Current(p) ==
    IF callers[p].at = "idle" THEN "" ELSE Calls(callers[p].op)[callers[p].step]

\* The goroutine after its current call: in the next call, or returned.
Advance(p) ==
    IF callers[p].step < Len(Calls(callers[p].op))
    THEN [callers[p] EXCEPT !.step = @ + 1,
                            !.at = EntryOf(Calls(callers[p].op)[callers[p].step + 1])]
    ELSE Idle

\* sync.RWMutex: RLock returns unless a writer holds or has asked for the
\* lock; Lock first excludes the other writers, then waits for the readers.
CanRLock == mu.w = NoProc

CanLock == mu.w = NoProc

CanAcquireIgnoringReaders(p) == mu.w = p

CanAcquire(p) == mu.w = p /\ mu.readers = {}

\* NewClient: opt.apply(c), an assignment to c.httpClient without the lock.
apply(hc) ==
    /\ published = "constructing"
    /\ httpClient' = hc
    /\ UNCHANGED <<defaultEnvAPIKey, apiKey, version, lastSet, mu, callers, published,
                   callVars, codecVars, encoderVars, pairVars>>

\* NewClient: return c, nil
NewClient ==
    /\ published = "constructing"
    /\ published' = "returned"
    /\ UNCHANGED <<clientVars, mu, callers, callVars, codecVars, encoderVars, pairVars>>

\* A goroutine calls a public operation on the returned client.
Call(p, o, key) ==
    /\ published = "returned"
    /\ callers[p].at = "idle"
    /\ callers' = [callers EXCEPT ![p] =
            [op |-> o, step |-> 1, at |-> EntryOf(Calls(o)[1]), key |-> key]]
    /\ UNCHANGED <<clientVars, mu, published, callVars, codecVars, encoderVars, pairVars>>

\* c.RLock()
RLock(p) ==
    /\ callers[p].at = "RLock"
    /\ CanRLock
    /\ mu' = [mu EXCEPT !.readers = @ \cup {p}]
    /\ callers' = [callers EXCEPT ![p].at = "read"]
    /\ UNCHANGED <<clientVars, published, callVars, codecVars, encoderVars, pairVars>>

\* The read of c.apiKey, c.version or c.httpClient.
ReadField(p) ==
    /\ callers[p].at = "read"
    /\ callers' = [callers EXCEPT ![p].at = "RUnlock"]
    /\ UNCHANGED <<clientVars, mu, published, callVars, codecVars, encoderVars, pairVars>>

\* A read that returns with the shared lock still held.
RUnlockLeaked(p) ==
    /\ callers[p].at = "RUnlock"
    /\ callers' = [callers EXCEPT ![p] = Advance(p)]
    /\ UNCHANGED <<clientVars, mu, published, callVars, codecVars, encoderVars, pairVars>>

\* defer c.RUnlock()
RUnlock(p) ==
    /\ callers[p].at = "RUnlock"
    /\ mu' = [mu EXCEPT !.readers = @ \ {p}]
    /\ callers' = [callers EXCEPT ![p] = Advance(p)]
    /\ UNCHANGED <<clientVars, published, callVars, codecVars, encoderVars, pairVars>>

\* c.Lock(): the writer is announced and new readers are held back.
Lock(p) ==
    /\ callers[p].at = "Lock"
    /\ CanLock
    /\ mu' = [mu EXCEPT !.w = p]
    /\ callers' = [callers EXCEPT ![p].at = "pending"]
    /\ UNCHANGED <<clientVars, published, callVars, codecVars, encoderVars, pairVars>>

\* c.Lock() returns once the readers have left.
LockAcquired(p) ==
    /\ callers[p].at = "pending"
    /\ CanAcquire(p)
    /\ mu' = [mu EXCEPT !.held = TRUE]
    /\ callers' = [callers EXCEPT ![p].at = "write"]
    /\ UNCHANGED <<clientVars, published, callVars, codecVars, encoderVars, pairVars>>

\* c.apiKey = key
WriteField(p) ==
    /\ callers[p].at = "write"
    /\ apiKey' = callers[p].key
    /\ lastSet' = [set |-> TRUE, key |-> callers[p].key]
    /\ callers' = [callers EXCEPT ![p].at = "Unlock"]
    /\ UNCHANGED <<defaultEnvAPIKey, version, httpClient, mu, published, callVars,
                   codecVars, encoderVars, pairVars>>

\* defer c.Unlock()
Unlock(p) ==
    /\ callers[p].at = "Unlock"
    /\ mu' = Unlocked
    /\ callers' = [callers EXCEPT ![p] = Advance(p)]
    /\ UNCHANGED <<clientVars, published, callVars, codecVars, encoderVars, pairVars>>

\* httpClient.Do(req): the request leaves.
DoSend(p) ==
    /\ callers[p].at = "send"
    /\ callers' = [callers EXCEPT ![p].at = "flight"]
    /\ UNCHANGED <<clientVars, mu, published, callVars, codecVars, encoderVars, pairVars>>

\* httpClient.Do(req) returns, and the operation after it.
DoReturn(p) ==
    /\ callers[p].at = "flight"
    /\ callers' = [callers EXCEPT ![p] = Advance(p)]
    /\ UNCHANGED <<clientVars, mu, published, callVars, codecVars, encoderVars, pairVars>>

LockInit ==
    /\ cIn = JNull /\ cOut = [err |-> "", val |-> <<>>] /\ cPc = "off"
    /\ uIn = NilRequest /\ uOut = [err |-> "", values |-> <<>>] /\ uPc = "off"
    /\ defaultEnvAPIKey = <<"pk.env">> /\ apiKey = <<>> /\ version = <<>>
    /\ httpClient = "nil" /\ lastSet = [set |-> FALSE, key |-> <<>>]
    /\ pc = "off" /\ op = "" /\ arg = NoArg /\ encoded = <<>> /\ hreq = NilReq
    /\ roundTrips = 0 /\ res = NoRes /\ deferred = FALSE
    /\ bodyClosed = 0 /\ bodyReads = 0 /\ decodes = 0 /\ slurp = NoBody
    /\ ret = [resp |-> NilResp, err |-> NoErr] /\ failed = ""
    /\ mu = Unlocked
    /\ callers = [p \in Procs |-> Idle]
    /\ published = "constructing"
    /\ PairOff

LockNext ==
    \/ \E hc \in {"nil", "tBackend"} : apply(hc)
    \/ NewClient
    \/ \E p \in Procs, o \in LockOps \ {"SetAPIKey"} : Call(p, o, <<>>)
    \/ \E p \in Procs, key \in LockKeys : Call(p, "SetAPIKey", key)
    \/ \E p \in Procs : RLock(p)
    \/ \E p \in Procs : ReadField(p)
    \/ \E p \in Procs : RUnlock(p)
    \/ \E p \in Procs : Lock(p)
    \/ \E p \in Procs : LockAcquired(p)
    \/ \E p \in Procs : WriteField(p)
    \/ \E p \in Procs : Unlock(p)
    \/ \E p \in Procs : DoSend(p)
    \/ \E p \in Procs : DoReturn(p)

SpecLock == LockInit /\ [][LockNext]_vars

(***************************************************************************)
(* Claims about the lock                                                   *)
(***************************************************************************)
HoldsShared(p) == p \in mu.readers /\ ~mu.held

HoldsExclusive(p) == mu.w = p /\ mu.held /\ mu.readers = {}

\* The goroutine's next step reads, or assigns, the field.
Reading(p, field) == callers[p].at = "read" /\ FieldOf(Current(p)) = field

Writing(p, field) == callers[p].at = "write" /\ FieldOf(Current(p)) = field

Fields == {"apiKey", "version", "httpClient"}

\* An assignment to a field is about to happen while another goroutine is
\* about to read or assign the same field.
Race ==
    \E p, q \in Procs, f \in Fields :
        p # q /\ Writing(p, f) /\ (Reading(q, f) \/ Writing(q, f))

\* A goroutine stopped in RLock, and one stopped in Lock.
ReaderWaits(p) == callers[p].at = "RLock" /\ ~CanRLock

WriterWaits(p) ==
    \/ callers[p].at = "Lock" /\ ~CanLock
    \/ callers[p].at = "pending" /\ ~CanAcquire(p)

\* C11 as stated: every step that reads apiKey, version or httpClient is
\* taken under the shared lock and every step that assigns one of them under
\* the exclusive lock.
C11_EveryAccessUnderLock ==
    [][/\ \A p \in Procs :
            (callers[p].at = "read" /\ callers'[p].at = "RUnlock") => HoldsShared(p)
       /\ (apiKey' # apiKey \/ version' # version \/ httpClient' # httpClient) =>
            \E p \in Procs : HoldsExclusive(p)]_vars

\* C11, amended: once NewClient has returned the client, every read is made
\* under the shared lock and every assignment under the exclusive lock, no
\* assignment to a field is concurrent with another access to it, and a
\* reader waits only for a writer, never for another reader; the assignment
\* that NewClient's option makes without the lock happens while no caller
\* has the client.
C11_AccessesUnderLockOnceReturned ==
    /\ \A p \in Procs :
        /\ callers[p].at \in {"read", "RUnlock"} => HoldsShared(p)
        /\ callers[p].at \in {"write", "Unlock"} => HoldsExclusive(p)
        /\ ReaderWaits(p) => \E q \in Procs \ {p} : callers[q].at \in {"pending", "write", "Unlock"}
    /\ ~Race
    /\ published = "constructing" =>
            mu = Unlocked /\ \A p \in Procs : callers[p].at = "idle"

\* Two goroutines read the same field at once, the key having been set.
C11_Witness ==
    /\ lastSet.set
    /\ \E p, q \in Procs : p # q /\ Reading(p, "apiKey") /\ Reading(q, "apiKey")

\* The goroutine has the lock in some way: as reader, or as the writer that
\* holds it or has asked for it.
Holds(p) == p \in mu.readers \/ mu.w = p

\* The goroutine's next step needs nothing from anybody else.
Runnable(p) ==
    \/ callers[p].at \in {"read", "RUnlock", "write", "Unlock", "send"}
    \/ callers[p].at = "RLock" /\ CanRLock
    \/ callers[p].at = "Lock" /\ CanLock
    \/ callers[p].at = "pending" /\ CanAcquire(p)

\* C15: a goroutine holds no lock while its round trip is in flight nor
\* when it calls RLock or Lock, so whoever waits for the lock waits for a
\* goroutine that holds it, can take its next step at once and is not
\* waiting for the transport: no deadlock, and SetAPIKey never waits for a
\* response.
C15_NoLockAcrossRoundTrip ==
    \A p \in Procs :
        /\ callers[p].at \in {"send", "flight", "RLock", "Lock"} => ~Holds(p)
        /\ callers[p].at = "pending" => p \notin mu.readers
        /\ (ReaderWaits(p) \/ WriterWaits(p)) =>
                \E q \in Procs \ {p} :
                    Holds(q) /\ Runnable(q) /\ callers[q].at \notin {"send", "flight"}
        /\ (callers[p].at \notin {"idle", "flight"} /\ ~Runnable(p)) =>
                (ReaderWaits(p) \/ WriterWaits(p))

\* SetAPIKey assigns the key while another caller's round trip is in
\* flight.
C15_Witness ==
    \E p, q \in Procs :
        /\ callers[p].at = "flight"
        /\ callers[q].at = "write" /\ callers[q].op = "SetAPIKey"

(***************************************************************************)
(* A LatLonPair through json.Marshal and LatLonPair.UnmarshalJSON, in both *)
(* orders.  json.Marshal writes a float32 as its shortest decimal; the     *)
(* decoder reads the decimal back as a float64.                            *)
(***************************************************************************)
\* The whole number a string of digits stands for.
RECURSIVE DigitsValue(_)
DigitsValue(s) ==
    IF s = <<>> THEN 0
    ELSE 10 * DigitsValue(SubSeq(s, 1, Len(s) - 1)) + (Index(DigitChars, s[Len(s)]) - 1)

\* strconv.ParseFloat(s, 64) of a JSON number: digits / 10^d with d the
\* count of digits after the point.  The decimals written here stand for
\* dyadic rationals, so the division by 5^d is exact.
\* The float64 nearest to 7.038531e-26 is 22841339 / 2^108, less than
\* 2^-54 of its size above the decimal: exactly halfway between TieFloat
\* and the float32 that follows it.
TieDouble == Num(22841339, 108)

ParseNumber(s) ==
    LET neg    == s # <<>> /\ Head(s) = "-"
        body   == IF neg THEN Tail(s) ELSE s
        d      == IF Index(body, ".") = 0 THEN 0 ELSE Len(body) - Index(body, ".")
        digits == SelectSeq(body, LAMBDA c : c # ".")
        n      == DigitsValue(digits) \div (5 ^ d)
    IN  IF s = TieDecimal THEN TieDouble
        ELSE Float64(Num(IF neg THEN -n ELSE n, d))

\* json.Marshal of one float32: the number its shortest decimal denotes.
MarshalNumber(x) == JNum(ParseNumber(Shortest(x)))

\* json.Marshal(llp) of a LatLonPair: [err, val]; a nil slice is null, a
\* float that is no number is an error.
MarshalPair(llp) ==
    IF ~AllFinite(llp.elems)
    THEN [err |-> "json: unsupported value", val |-> JNull]
    ELSE IF llp.kind = "nilslice" THEN [err |-> "", val |-> JNull]
    ELSE [err |-> "",
          val |-> JArray([i \in 1..Len(llp.elems) |-> MarshalNumber(llp.elems[i])])]

\* float32 values a pair may hold, among them one that is no number.
PairFloats ==
    {Whole(0), NoPathDuration, Whole(2910), Num(5, 1), Num(-309, 2), Num(1, 6),
     Whole(2 ^ Float32Bits), TieFloat, NaN}

Pairs == {PairOf(s) : s \in SeqsUpTo(PairFloats, MaxLen)} \cup {NilSlicePair}

PairInit ==
    /\ \/ rtPc = "pair" /\ rtIn \in Pairs
       \/ rtPc = "json" /\ rtIn \in {b \in CodecInputs : b.t = "array"}
    /\ rtMid = [err |-> "", val |-> <<>>]
    /\ rtOut = [err |-> "", val |-> <<>>]
    /\ mu = Unlocked /\ callers = [p \in Procs |-> Idle] /\ published = "off"
    /\ cIn = JNull /\ cOut = [err |-> "", val |-> <<>>] /\ cPc = "off"
    /\ uIn = NilRequest /\ uOut = [err |-> "", values |-> <<>>] /\ uPc = "off"
    /\ defaultEnvAPIKey = <<>> /\ apiKey = <<>> /\ version = <<>>
    /\ httpClient = "nil" /\ lastSet = [set |-> FALSE, key |-> <<>>]
    /\ pc = "off" /\ op = "" /\ arg = NoArg /\ encoded = <<>> /\ hreq = NilReq
    /\ roundTrips = 0 /\ res = NoRes /\ deferred = FALSE
    /\ bodyClosed = 0 /\ bodyReads = 0 /\ decodes = 0 /\ slurp = NoBody
    /\ ret = [resp |-> NilResp, err |-> NoErr] /\ failed = ""

\* json.Marshal(pair)
PairMarshal ==
    /\ rtPc = "pair"
    /\ rtMid' = MarshalPair(rtIn)
    /\ rtPc' = "pair.encoded"
    /\ UNCHANGED <<rtIn, rtOut, codecVars, encoderVars, clientVars, callVars, lockVars>>

\* json.Unmarshal of that encoding into a LatLonPair
PairUnmarshalBack ==
    /\ rtPc = "pair.encoded" /\ rtMid.err = ""
    /\ rtOut' = UnmarshalJSON(rtMid.val)
    /\ rtPc' = "pair.done"
    /\ UNCHANGED <<rtIn, rtMid, codecVars, encoderVars, clientVars, callVars, lockVars>>

\* json.Unmarshal(array) into a LatLonPair
PairUnmarshal ==
    /\ rtPc = "json"
    /\ rtMid' = UnmarshalJSON(rtIn)
    /\ rtPc' = "json.decoded"
    /\ UNCHANGED <<rtIn, rtOut, codecVars, encoderVars, clientVars, callVars, lockVars>>

\* json.Marshal of the pair decoded
PairMarshalBack ==
    /\ rtPc = "json.decoded" /\ rtMid.err = ""
    /\ rtOut' = MarshalPair(PairOf(rtMid.val))
    /\ rtPc' = "json.done"
    /\ UNCHANGED <<rtIn, rtMid, codecVars, encoderVars, clientVars, callVars, lockVars>>

PairNext == PairMarshal \/ PairUnmarshalBack \/ PairUnmarshal \/ PairMarshalBack

SpecPair == PairInit /\ [][PairNext]_vars

\* The encoding is an array of numbers, one for each element.
NumbersOnly(j, k) ==
    j.t = "array" /\ Len(j.elems) = k /\ \A i \in 1..k : j.elems[i].t = "number"

\* C13 as stated: the encoding of any float sequence is an array of numbers
\* that decodes to the same sequence, and the encoding of the decoding of an
\* array holds the number -1, never null, where the array holds null.
C13_EncodeDecodeAsymmetry ==
    /\ (rtPc \in {"pair.encoded", "pair.done"} /\ rtIn.kind = "slice") =>
            rtMid.err = "" /\ NumbersOnly(rtMid.val, Len(rtIn.elems))
    /\ rtPc = "pair.encoded" => rtMid.err = ""
    /\ rtPc = "pair.done" => rtOut.err = "" /\ rtOut.val = rtIn.elems
    /\ rtPc = "json.done" =>
            /\ rtOut.err = "" /\ NumbersOnly(rtOut.val, Len(rtIn.elems))
            /\ \A i \in 1..Len(rtIn.elems) :
                    rtIn.elems[i].t = "null" => ValueOf(rtOut.val.elems[i]) = NoPathDuration

\* The second half of C13 alone: what was null comes back as the number -1.
C13_NullBecomesMinusOne ==
    rtPc = "json.done" =>
        /\ rtOut.err = "" /\ NumbersOnly(rtOut.val, Len(rtIn.elems))
        /\ \A i \in 1..Len(rtIn.elems) :
                rtIn.elems[i].t = "null" => ValueOf(rtOut.val.elems[i]) = NoPathDuration

\* The round trip of a pair of finite floats that does not return the pair.
C13_RoundTripDiffers ==
    rtPc = "pair.done" /\ AllFinite(rtIn.elems) /\ rtOut.val # rtIn.elems

====
